---------------------------- MODULE Spec2Model ----------------------------
(***************************************************************************)
(* A model of the two schematic editors of the repository:                 *)
(*   electrical/kicad_utils.py       class SchematicEditor + helpers       *)
(*   electrical/schematic_editor.py  class SchematicEditor                 *)
(* One editing session is modelled: an editor object of one of the two     *)
(* classes is constructed on a schematic file and its methods are called   *)
(* in any order with any arguments.                                        *)
(*                                                                         *)
(* Encoding of Python values.                                              *)
(*  - Lengths are integers in units of 0.005 mm, so that 2.54 mm = 508 and *)
(*    the midpoint of two 0.01 mm coordinates is exact.                    *)
(*  - An object is a record of its attributes.  None is the record None,   *)
(*    the editor returned by "return self" is the record Self.             *)
(*  - An Optional[str] argument is a sequence of at most one string:       *)
(*    << >> is None, <<s>> is the string s.                                *)
(*  - A 'REF.PIN' string is the sequence of its dot-free chunks and its    *)
(*    dots, e.g. "R1.2" is <<"R1", ".", "2">>, so that split('.') and the  *)
(*    f-strings that build pin names are computed, not assumed.            *)
(*  - uuid.uuid4() returns <<"uuid4", n>> with n fresh; identifiers read   *)
(*    from the file are <<"file", n>>.                                     *)
(*  - The file system maps a file name to the document written there       *)
(*    (the file format itself belongs to the kiutils library).             *)
(***************************************************************************)
EXTENDS Integers, Sequences, FiniteSets, TLC

VARIABLES
    editor,          \* which class the session's editor object is an instance of
    path,            \* self.path
    sch,             \* self.sch, the in-memory document
    fs,              \* the files on disk: file name -> document
    backup_counter,  \* self.backup_counter (schematic_editor.py only; a kicad_utils
    components,      \* self.components      editor has none of the three, and they
    nets,            \* self.nets            keep their initial values in its session)
    ret,             \* the outcome of the last call: what it returned or raised
    nextUuid,        \* the number of uuid4() values drawn so far, plus one
    calls,           \* how many calls the session has made
    connected        \* the pin pairs connect_pins has accepted since nets was built

vars == <<editor, path, sch, fs, backup_counter, components, nets, ret,
          nextUuid, calls, connected>>

-----------------------------------------------------------------------------
(* Bounds of the model *)

MaxCalls == 3
MaxWirePoints == 2

(* Program constants, in units of 0.005 mm *)

RefPropOffset == 508
DividerSpacing == 2000
DividerWireTop == 508
DividerWireBottom == 1492
DividerJunction == 1000
CapLabelOffset == 508
CapPinOffset == 254
CapOrientation == 90

-----------------------------------------------------------------------------
(* Python values *)

None == [py |-> "None"]
Self == [py |-> "self"]
NoError == "None"

KicadUtils == "kicad_utils.SchematicEditor"
Interactive == "schematic_editor.SchematicEditor"

Position(x, y) == [X |-> x, Y |-> y]
PositionAngle(x, y, a) == [X |-> x, Y |-> y, angle |-> a]

Property(key, value, position) == [key |-> key, value |-> value, position |-> position]

uuid4(n) == <<"uuid4", n>>

RECURSIVE SeqToSet(_)
SeqToSet(s) == IF s = << >> THEN {} ELSE {Head(s)} \cup SeqToSet(Tail(s))

-----------------------------------------------------------------------------
(* The arguments the session's calls are drawn from *)

XCoords == {0, 1016}
YCoords == {0}
Points == {<<x, y>> : x \in XCoords, y \in YCoords}
LibraryRefs == {"Device:R"}
References == {"R1", "D1"}
UnknownReference == "X9"
Orientations == {0}
LabelTexts == {"VCC"}

(* the polylines of up to MaxWirePoints points that zigzag between the two *)
(* x coordinates, from either end; the empty list among them              *)
Zigzag(first, n) ==
    [i \in 1..n |-> IF i % 2 = 1 THEN first
                    ELSE CHOOSE p \in Points : p # first]

WireSpecs == {Zigzag(first, n) : first \in Points, n \in 0..MaxWirePoints}

HelperXCoords == {0}

-----------------------------------------------------------------------------
(* The documents a session may find on disk *)

(* libSymbols is the file's lib_symbols section: the pin names of each     *)
(* library symbol the file embeds; no method of either editor reads or     *)
(* writes it                                                               *)
EmptyDoc ==
    [schematicSymbols |-> << >>, wires |-> << >>, junctions |-> << >>,
     labels |-> << >>, globalLabels |-> << >>, libSymbols |-> [id \in {} |-> {}]]

FileSymbol(n, library_ref, reference, x, y) ==
    [libraryIdentifier |-> library_ref,
     position |-> PositionAngle(x, y, 0),
     unit |-> 1,
     uuid |-> <<"file", n>>,
     properties |-> <<Property("Reference", reference, Position(x, y - RefPropOffset))>>]

(* a resistor R1 and an LED D1, as example_add_led.py places them *)
ScenarioDoc ==
    [EmptyDoc EXCEPT
        !.schematicSymbols =
            <<FileSymbol(1, "Device:R", "R1", 0, 0), FileSymbol(2, "Device:LED", "D1", 1016, 0)>>,
        !.libSymbols =
            [id \in {"Device:R", "Device:LED"} |->
                IF id = "Device:R" THEN {"1", "2"} ELSE {"A", "K"}]]

InitialDocs == {EmptyDoc, ScenarioDoc}

SchPaths == {[stem |-> "holes", suffix |-> ".kicad_sch"]}

-----------------------------------------------------------------------------
(* pathlib and the file system *)

with_suffix(p, suffix) == [p EXCEPT !.suffix = suffix]
str(p) == p.stem \o p.suffix

to_file(files, name, doc) ==
    [f \in DOMAIN files \cup {name} |-> IF f = name THEN doc ELSE files[f]]

from_file(files, name) == files[name]

-----------------------------------------------------------------------------
(* kicad_utils.py: class SchematicEditor.  A method is an operator from    *)
(* the call state c = [sch, uuid, value, raised] to the call state after   *)
(* it: the document, the uuid counter, the value returned and the          *)
(* exception raised (NoError when it returned).                            *)

Call(doc, n) == [sch |-> doc, uuid |-> n, value |-> None, raised |-> NoError]
Return(c, doc, n, v) == [sch |-> doc, uuid |-> n, value |-> v, raised |-> NoError]
Raise(c, e) == [c EXCEPT !.value = None, !.raised = e]

add_symbol(c, library_ref, reference, x, y, orientation, unit) ==
    LET symbol == [libraryIdentifier |-> library_ref,
                   position |-> PositionAngle(x, y, orientation),
                   unit |-> unit,
                   uuid |-> uuid4(c.uuid),
                   properties |-> <<Property("Reference", reference,
                                             Position(x, y - RefPropOffset))>>]
    IN  Return(c, [c.sch EXCEPT !.schematicSymbols = Append(@, symbol)],
               c.uuid + 1, symbol)

ku_add_wire_unchecked(c, points) ==
    LET wire == [points |-> [i \in 1..Len(points) |-> Position(points[i][1], points[i][2])],
                 uuid |-> uuid4(c.uuid)]
    IN  Return(c, [c.sch EXCEPT !.wires = Append(@, wire)], c.uuid + 1, wire)

ku_add_wire(c, points) ==
    IF Len(points) < 2
    THEN Raise(c, "ValueError")
    ELSE LET wire == [points |-> [i \in 1..Len(points) |->
                                     Position(points[i][1], points[i][2])],
                      uuid |-> uuid4(c.uuid)]
         IN  Return(c, [c.sch EXCEPT !.wires = Append(@, wire)], c.uuid + 1, wire)

add_junction(c, x, y) ==
    LET junction == [position |-> Position(x, y), uuid |-> uuid4(c.uuid), diameter |-> 0]
    IN  Return(c, [c.sch EXCEPT !.junctions = Append(@, junction)], c.uuid + 1, junction)

ku_add_label_both(c, text, x, y, orientation, global_label) ==
    LET label == [kind |-> "Label", text |-> text,
                  position |-> PositionAngle(x, y, orientation), uuid |-> uuid4(c.uuid)]
    IN  Return(c, [c.sch EXCEPT !.globalLabels = Append(@, label),
                                !.labels = Append(@, label)],
               c.uuid + 1, label)

ku_add_label(c, text, x, y, orientation, global_label) ==
    LET label == IF global_label
                THEN [kind |-> "GlobalLabel", shape |-> "input", text |-> text,
                      position |-> PositionAngle(x, y, orientation),
                      uuid |-> uuid4(c.uuid)]
                ELSE [kind |-> "Label", text |-> text,
                      position |-> PositionAngle(x, y, orientation),
                      uuid |-> uuid4(c.uuid)]
    IN  IF global_label
        THEN Return(c, [c.sch EXCEPT !.globalLabels = Append(@, label)], c.uuid + 1, label)
        ELSE Return(c, [c.sch EXCEPT !.labels = Append(@, label)], c.uuid + 1, label)

RECURSIVE FirstIndex(_, _, _)
FirstIndex(symbols, reference, i) ==
    IF i > Len(symbols) THEN 0
    ELSE IF \E k \in 1..Len(symbols[i].properties) :
                /\ symbols[i].properties[k].key = "Reference"
                /\ symbols[i].properties[k].value = reference
         THEN i
         ELSE FirstIndex(symbols, reference, i + 1)

find_symbol(doc, reference) ==
    LET i == FirstIndex(doc.schematicSymbols, reference, 1)
    IN  IF i = 0 THEN None ELSE doc.schematicSymbols[i]

get_symbol_position(c, reference) ==
    LET symbol == find_symbol(c.sch, reference)
    IN  IF symbol # None
        THEN Return(c, c.sch, c.uuid, Position(symbol.position.X, symbol.position.Y))
        ELSE Return(c, c.sch, c.uuid, None)

move_symbol_appending(c, reference, x, y) ==
    LET i == FirstIndex(c.sch.schematicSymbols, reference, 1)
        moved == [libraryIdentifier |-> "", position |-> PositionAngle(x, y, 0), unit |-> 1,
                  uuid |-> uuid4(c.uuid),
                  properties |-> <<Property("Reference", reference, Position(x, y))>>]
    IN  IF i # 0
        THEN Return(c, [c.sch EXCEPT !.schematicSymbols[i].position.X = x,
                                     !.schematicSymbols[i].position.Y = y],
                    c.uuid, Self)
        ELSE Return(c, [c.sch EXCEPT !.schematicSymbols = Append(@, moved)],
                    c.uuid + 1, Self)

move_symbol(c, reference, x, y) ==
    LET i == FirstIndex(c.sch.schematicSymbols, reference, 1)
    IN  IF i # 0
        THEN Return(c, [c.sch EXCEPT !.schematicSymbols[i].position.X = x,
                                     !.schematicSymbols[i].position.Y = y],
                    c.uuid, Self)
        ELSE Return(c, c.sch, c.uuid, Self)

Truthy(optional_str) == optional_str # << >> /\ optional_str # <<"">>

(* (a + b) / 2 is exact here: coordinates are whole multiples of 0.01 mm, *)
(* that is even numbers of units                                          *)
connect_points(c, start, end, label) ==
    LET wired == ku_add_wire(c, <<start, end>>)
    IN  IF wired.raised # NoError THEN wired
        ELSE IF Truthy(label)
        THEN LET mid_x == (start[1] + end[1]) \div 2
                 mid_y == (start[2] + end[2]) \div 2
                 labelled == ku_add_label(wired, label[1], mid_x, mid_y, 0, FALSE)
             IN  Return(labelled, labelled.sch, labelled.uuid, Self)
        ELSE Return(wired, wired.sch, wired.uuid, Self)

create_bus(c, points, name) == Return(c, c.sch, c.uuid, None)

(* save(): the files after the call, which itself returns self *)
ku_save(files, p, doc, backup) ==
    LET backed == IF backup
                  THEN to_file(files, str(with_suffix(p, ".bak.kicad_sch")), doc)
                  ELSE files
    IN  to_file(backed, str(p), doc)

-----------------------------------------------------------------------------
(* kicad_utils.py: the convenience functions *)

create_resistor_divider(c, x, y, prefix) ==
    LET c1 == add_symbol(c, "Device:R", prefix \o "1", x, y, 0, 1)
        c2 == add_symbol(c1, "Device:R", prefix \o "2", x, y + DividerSpacing, 0, 1)
        c3 == ku_add_wire(c2, <<(<<x, y + DividerWireTop>>), (<<x, y + DividerWireBottom>>)>>)
        c4 == add_junction(c3, x, y + DividerJunction)
    IN  IF c3.raised # NoError THEN c3
        ELSE Return(c4, c4.sch, c4.uuid, [r1 |-> c1.value, r2 |-> c2.value])

create_bypass_cap(c, x, y, ref) ==
    LET c1 == add_symbol(c, "Device:C", ref, x, y, CapOrientation, 1)
        c2 == ku_add_label(c1, "VCC", x - CapLabelOffset, y, 0, TRUE)
        c3 == ku_add_label(c2, "GND", x + CapLabelOffset, y, 0, TRUE)
        c4 == ku_add_wire(c3, <<(<<x - CapLabelOffset, y>>), (<<x - CapPinOffset, y>>)>>)
        c5 == IF c4.raised # NoError THEN c4
              ELSE ku_add_wire(c4, <<(<<x + CapPinOffset, y>>), (<<x + CapLabelOffset, y>>)>>)
    IN  IF c5.raised # NoError THEN c5
        ELSE Return(c5, c5.sch, c5.uuid, c1.value)

ConnTypes == {"pin_header", "socket_header"}
PinCounts == {2, 3}

(* symbol_ref is bound only on three of the paths; on the others the final *)
(* add_symbol reads an unbound local                                       *)
symbol_ref(conn_type, pin_count) ==
    IF conn_type = "pin_header" /\ pin_count = 2 THEN <<"Connector:Conn_01x02_Pin">>
    ELSE IF conn_type = "pin_header" /\ pin_count = 3 THEN <<"Connector:Conn_01x03_Pin">>
    ELSE IF conn_type = "socket_header" /\ pin_count = 2 THEN <<"Connector:Conn_01x02_Socket">>
    ELSE << >>

create_connector(c, conn_type, pin_count, x, y, ref) ==
    LET bound == symbol_ref(conn_type, pin_count)
    IN  IF bound = << >>
        THEN Raise(c, "UnboundLocalError")
        ELSE add_symbol(c, bound[1], ref, x, y, 0, 1)

-----------------------------------------------------------------------------
(* schematic_editor.py: class SchematicEditor *)

(* value.replace('"', '') on the reference values of the model *)
replace_quotes(value) ==
    CASE value = "\"R1\"" -> "R1"
      [] value = "\"D1\"" -> "D1"
      [] OTHER -> value

RECURSIVE FirstReference(_, _)
FirstReference(properties, k) ==
    IF k > Len(properties) THEN << >>
    ELSE IF properties[k].key = "Reference"
         THEN <<replace_quotes(properties[k].value)>>
         ELSE FirstReference(properties, k + 1)

(* << >> when the symbol has no Reference property, <<ref>> otherwise *)
_get_symbol_reference(symbol) == FirstReference(symbol.properties, 1)

_build_component_map(doc) ==
    LET symbols == doc.schematicSymbols
        refOf(i) == _get_symbol_reference(symbols[i])
        keyed == {i \in 1..Len(symbols) : refOf(i) # << >> /\ refOf(i) # <<"">>}
        refs == {refOf(i)[1] : i \in keyed}
        last(r) == CHOOSE i \in keyed :
                      /\ refOf(i)[1] = r
                      /\ \A j \in keyed : refOf(j)[1] = r => j <= i
    IN  [r \in refs |-> symbols[last(r)]]

_build_net_map == [n \in {} |-> {}]

_get_symbol_pins(symbol) == << >>

_find_components_with_pin(pin_names) == << >>

(* 'a.b'.split('.') on a string given as its chunks and dots *)
RECURSIVE split(_)
split(s) ==
    IF \A i \in 1..Len(s) : s[i] # "."
    THEN <<s>>
    ELSE LET d == CHOOSE i \in 1..Len(s) : s[i] = "." /\ \A j \in 1..(i - 1) : s[j] # "."
         IN  <<SubSeq(s, 1, d - 1)>> \o split(SubSeq(s, d + 1, Len(s)))

(* An interactive method is an operator on the call state                  *)
(* s = [nets, connected, printed, raised]: the net map, the pairs          *)
(* connect_pins has accepted, the lines printed and the exception raised   *)

stdout(s, line) == [s EXCEPT !.printed = Append(@, line)]

connect_pins_joining(s, pin1, pin2) ==
    LET parts1 == split(pin1)
        parts2 == split(pin2)
    IN  IF Len(parts1) # 2 \/ Len(parts2) # 2
        THEN [s EXCEPT !.raised = "ValueError"]
        ELSE [stdout(s, <<"Connecting ">> \o pin1 \o <<" to ">> \o pin2)
                 EXCEPT !.connected = @ \cup {{pin1, pin2}},
                        !.nets = [n \in DOMAIN s.nets \cup {pin1} |->
                                     IF n = pin1 THEN {pin1, pin2} ELSE s.nets[n]]]

connect_pins(s, pin1, pin2) ==
    LET parts1 == split(pin1)
        parts2 == split(pin2)
    IN  IF Len(parts1) # 2 \/ Len(parts2) # 2
        THEN [s EXCEPT !.raised = "ValueError"]
        ELSE [stdout(s, <<"Connecting ">> \o pin1 \o <<" to ">> \o pin2)
                 EXCEPT !.connected = @ \cup {{pin1, pin2}}]

(* consecutive connect_pins calls of one method: the first exception ends it *)
RECURSIVE connect_each(_, _)
connect_each(s, pairs) ==
    IF pairs = << >> \/ s.raised # NoError THEN s
    ELSE connect_each(connect_pins(s, Head(pairs)[1], Head(pairs)[2]), Tail(pairs))

connect_i2c(s, master, slave) ==
    connect_each(stdout(s, <<"Connecting I2C from ">> \o master \o <<" to ">> \o slave),
                 << <<master \o <<".", "GPIO2">>, slave \o <<".", "SDA">> >>,
                    <<master \o <<".", "GPIO3">>, slave \o <<".", "SCL">> >> >>)

wire_stepper_driver(s, driver_ref, step_pin, dir_pin, enable_pin) ==
    connect_each(stdout(s, <<"Wiring stepper driver ">> \o driver_ref),
                 << <<driver_ref \o <<".", "VDD">>, <<"+3V3">> >>,
                    <<driver_ref \o <<".", "VMOT">>, <<"StepperPower1", ".", "1">> >>,
                    <<driver_ref \o <<".", "GND">>, <<"GND">> >>,
                    <<driver_ref \o <<".", "STEP">>, step_pin>>,
                    <<driver_ref \o <<".", "DIR">>, dir_pin>>,
                    <<driver_ref \o <<".", "~ENABLE">>, enable_pin>>,
                    <<driver_ref \o <<".", "~RESET">>, <<"+3V3">> >>,
                    <<driver_ref \o <<".", "~SLEEP">>, <<"+3V3">> >> >>)

(* the lines list_unconnected prints: its header, and no pin after it *)
list_unconnected(doc, netmap) == <<(<<"Unconnected pins:">>)>>

se_add_wire_replacing(c, start, end) ==
    LET drawn_wire == [startPoint |-> Position(start[1], start[2]),
                       endPoint |-> Position(end[1], end[2]),
                       uuid |-> uuid4(c.uuid)]
    IN  Return(c, [c.sch EXCEPT !.wires = <<drawn_wire>>], c.uuid + 1, None)

se_add_wire(c, start, end) ==
    LET drawn_wire == [startPoint |-> Position(start[1], start[2]),
                       endPoint |-> Position(end[1], end[2]),
                       uuid |-> uuid4(c.uuid)]
    IN  Return(c, [c.sch EXCEPT !.wires = Append(@, drawn_wire)], c.uuid + 1, None)

se_add_label(c, position, text) ==
    LET label == [kind |-> "Label", text |-> text,
                  position |-> Position(position[1], position[2]),
                  uuid |-> uuid4(c.uuid)]
    IN  Return(c, [c.sch EXCEPT !.labels = Append(@, label)], c.uuid + 1, None)

backup_path_unnumbered(p, counter) == with_suffix(p, ".bak.kicad_sch")

backup_path(p, counter) == with_suffix(p, ".bak" \o ToString(counter) \o ".kicad_sch")

RECURSIVE component_lines(_, _, _)
component_lines(doc, map, i) ==
    LET symbols == doc.schematicSymbols
        ref == _get_symbol_reference(symbols[i])
        first == \A j \in 1..(i - 1) : _get_symbol_reference(symbols[j]) # ref
    IN  IF i > Len(symbols) THEN << >>
        ELSE IF ref # << >> /\ ref # <<"">> /\ first
        THEN <<(<<ref[1], ": ", map[ref[1]].libraryIdentifier>>)>>
                 \o component_lines(doc, map, i + 1)
        ELSE component_lines(doc, map, i + 1)

list_components(doc, map) == component_lines(doc, map, 1)

-----------------------------------------------------------------------------
(* The session *)

Result(op, args, value, raised, printed) ==
    [op |-> op, args |-> args, value |-> value, raised |-> raised, printed |-> printed]

NoArgs == [none |-> TRUE]

Init ==
    /\ editor \in {KicadUtils, Interactive}
    /\ path \in SchPaths
    /\ \E doc \in InitialDocs :
          /\ fs = [f \in {str(path)} |-> doc]
          /\ sch = from_file(fs, str(path))
    /\ backup_counter = 0
    /\ components = IF editor = Interactive
                    THEN _build_component_map(sch)
                    ELSE [r \in {} |-> None]
    /\ nets = _build_net_map
    /\ ret = Result("__init__", NoArgs, None, NoError, << >>)
    /\ nextUuid = 1
    /\ calls = 0
    /\ connected = {}

Cur == Call(sch, nextUuid)

(* a call of a kicad_utils method or function that ended in call state c *)
KuDone(op, args, c) ==
    /\ sch' = c.sch
    /\ nextUuid' = c.uuid
    /\ ret' = Result(op, args, c.value, c.raised, << >>)
    /\ UNCHANGED <<editor, path, fs, backup_counter, components, nets, connected>>

AddSymbol ==
    /\ editor = KicadUtils
    /\ calls < MaxCalls
    /\ calls' = calls + 1
    /\ \E library_ref \in LibraryRefs, reference \in References,
          x \in XCoords, y \in YCoords, orientation \in Orientations :
          KuDone("add_symbol", [reference |-> reference],
                 add_symbol(Cur, library_ref, reference, x, y, orientation, 1))

KuAddWire ==
    /\ editor = KicadUtils
    /\ calls < MaxCalls
    /\ calls' = calls + 1
    /\ \E points \in WireSpecs :
          KuDone("add_wire", [points |-> points], ku_add_wire(Cur, points))

AddJunction ==
    /\ editor = KicadUtils
    /\ calls < MaxCalls
    /\ calls' = calls + 1
    /\ \E x \in XCoords, y \in YCoords :
          KuDone("add_junction", NoArgs, add_junction(Cur, x, y))

KuAddLabel ==
    /\ editor = KicadUtils
    /\ calls < MaxCalls
    /\ calls' = calls + 1
    /\ \E text \in LabelTexts, x \in XCoords, y \in YCoords,
          orientation \in Orientations, global_label \in BOOLEAN :
          KuDone("add_label", [global_label |-> global_label],
                 ku_add_label(Cur, text, x, y, orientation, global_label))

GetSymbolPosition ==
    /\ editor = KicadUtils
    /\ calls < MaxCalls
    /\ calls' = calls + 1
    /\ \E reference \in References \cup {UnknownReference} :
          KuDone("get_symbol_position", [reference |-> reference],
                 get_symbol_position(Cur, reference))

MoveSymbol ==
    /\ editor = KicadUtils
    /\ calls < MaxCalls
    /\ calls' = calls + 1
    /\ \E reference \in References \cup {UnknownReference}, x \in XCoords, y \in YCoords :
          KuDone("move_symbol", [reference |-> reference],
                 move_symbol(Cur, reference, x, y))

OptionalLabels == {<< >>, <<"">>} \cup {<<t>> : t \in LabelTexts}

ConnectPoints ==
    /\ editor = KicadUtils
    /\ calls < MaxCalls
    /\ calls' = calls + 1
    /\ \E start \in Points, end \in Points, label \in OptionalLabels :
          KuDone("connect_points", [start |-> start, end |-> end, label |-> label],
                 connect_points(Cur, start, end, label))

CreateBus ==
    /\ editor = KicadUtils
    /\ calls < MaxCalls
    /\ calls' = calls + 1
    /\ \E points \in WireSpecs :
          KuDone("create_bus", NoArgs, create_bus(Cur, points, "BUS"))

KuSave ==
    /\ editor = KicadUtils
    /\ calls < MaxCalls
    /\ calls' = calls + 1
    /\ \E backup \in BOOLEAN :
          /\ fs' = ku_save(fs, path, sch, backup)
          /\ ret' = Result("save", [backup |-> backup], Self, NoError, << >>)
    /\ UNCHANGED <<editor, path, sch, backup_counter, components, nets,
                   nextUuid, connected>>

CreateResistorDivider ==
    /\ editor = KicadUtils
    /\ calls < MaxCalls
    /\ calls' = calls + 1
    /\ \E x \in HelperXCoords, y \in YCoords, prefix \in {"R"} :
          KuDone("create_resistor_divider", NoArgs,
                 create_resistor_divider(Cur, x, y, prefix))

CreateBypassCap ==
    /\ editor = KicadUtils
    /\ calls < MaxCalls
    /\ calls' = calls + 1
    /\ \E x \in HelperXCoords, y \in YCoords, ref \in {"C1"} :
          KuDone("create_bypass_cap", NoArgs, create_bypass_cap(Cur, x, y, ref))

CreateConnector ==
    /\ editor = KicadUtils
    /\ calls < MaxCalls
    /\ calls' = calls + 1
    /\ \E conn_type \in ConnTypes, pin_count \in PinCounts,
          x \in HelperXCoords, y \in YCoords, ref \in {"J1"} :
          KuDone("create_connector", [conn_type |-> conn_type, pin_count |-> pin_count],
                 create_connector(Cur, conn_type, pin_count, x, y, ref))

-----------------------------------------------------------------------------
(* The session: calls on a schematic_editor.SchematicEditor *)

Backup ==
    /\ editor = Interactive
    /\ calls < MaxCalls
    /\ calls' = calls + 1
    /\ backup_counter' = backup_counter + 1
    /\ fs' = to_file(fs, str(backup_path(path, backup_counter')), sch)
    /\ ret' = Result("backup", NoArgs, None, NoError,
                     <<(<<"Backup saved to: ", str(backup_path(path, backup_counter'))>>)>>)
    /\ UNCHANGED <<editor, path, sch, components, nets, nextUuid, connected>>

SeSave ==
    /\ editor = Interactive
    /\ calls < MaxCalls
    /\ calls' = calls + 1
    /\ fs' = to_file(fs, str(path), sch)
    /\ ret' = Result("save", NoArgs, None, NoError,
                     <<(<<"Schematic saved to: ", str(path)>>)>>)
    /\ UNCHANGED <<editor, path, sch, backup_counter, components, nets,
                   nextUuid, connected>>

Reload ==
    /\ editor = Interactive
    /\ calls < MaxCalls
    /\ calls' = calls + 1
    /\ sch' = from_file(fs, str(path))
    /\ components' = _build_component_map(sch')
    /\ nets' = _build_net_map
    /\ connected' = {}
    /\ ret' = Result("reload", NoArgs, None, NoError, <<(<<"Schematic reloaded">>)>>)
    /\ UNCHANGED <<editor, path, fs, backup_counter, nextUuid>>

(* a call of an interactive add method that ended in call state c *)
SeDone(op, args, c, line) ==
    /\ sch' = c.sch
    /\ nextUuid' = c.uuid
    /\ ret' = Result(op, args, c.value, c.raised, <<line>>)
    /\ UNCHANGED <<editor, path, fs, backup_counter, components, nets, connected>>

SeAddWire ==
    /\ editor = Interactive
    /\ calls < MaxCalls
    /\ calls' = calls + 1
    /\ \E start \in Points, end \in Points :
          SeDone("add_wire", [start |-> start, end |-> end], se_add_wire(Cur, start, end),
                 <<"Added wire from ", ToString(start), " to ", ToString(end)>>)

SeAddLabel ==
    /\ editor = Interactive
    /\ calls < MaxCalls
    /\ calls' = calls + 1
    /\ \E position \in Points, text \in LabelTexts :
          SeDone("add_label", NoArgs, se_add_label(Cur, position, text),
                 <<"Added label '", text, "' at ", ToString(position)>>)

(* a call that only prints *)
Printed(op, args, lines) ==
    /\ ret' = Result(op, args, None, NoError, lines)
    /\ UNCHANGED <<editor, path, sch, fs, backup_counter, components, nets,
                   nextUuid, connected>>

ComponentLists == {<< >>, <<(<<"R1">>)>>}

ConnectGrounds ==
    /\ editor = Interactive
    /\ calls < MaxCalls
    /\ calls' = calls + 1
    /\ \E given \in ComponentLists :
          LET found == IF given = << >> THEN _find_components_with_pin({"GND"})
                       ELSE given[1]
          IN  Printed("connect_grounds", NoArgs,
                      <<(<<"Connecting grounds for: ", ToString(found)>>)>>)

ConnectPower ==
    /\ editor = Interactive
    /\ calls < MaxCalls
    /\ calls' = calls + 1
    /\ \E voltage \in {"3V3"}, given \in ComponentLists :
          LET found == IF given = << >>
                       THEN _find_components_with_pin({"VCC", "VDD", "PWR"})
                       ELSE given[1]
          IN  Printed("connect_power", NoArgs,
                      <<(<<"Connecting ", voltage, " power for: ", ToString(found)>>)>>)

ListComponents ==
    /\ editor = Interactive
    /\ calls < MaxCalls
    /\ calls' = calls + 1
    /\ Printed("list_components", NoArgs, list_components(sch, components))

ListUnconnected ==
    /\ editor = Interactive
    /\ calls < MaxCalls
    /\ calls' = calls + 1
    /\ Printed("list_unconnected", NoArgs, list_unconnected(sch, nets))

PinSpecs ==
    {<<"R1", ".", "2">>, <<"D1", ".", "A">>, <<"D1", ".", "K">>,
     <<UnknownReference, ".", "1">>, <<"+3V3">>}

Connecting == [nets |-> nets, connected |-> connected, printed |-> << >>, raised |-> NoError]

(* a call of a connect method that ended in call state s *)
Connected(op, args, s) ==
    /\ nets' = s.nets
    /\ connected' = s.connected
    /\ ret' = Result(op, args, None, s.raised, s.printed)
    /\ UNCHANGED <<editor, path, sch, fs, backup_counter, components, nextUuid>>

ConnectPins ==
    /\ editor = Interactive
    /\ calls < MaxCalls
    /\ calls' = calls + 1
    /\ \E pin1 \in PinSpecs, pin2 \in PinSpecs :
          Connected("connect_pins", [pin1 |-> pin1, pin2 |-> pin2],
                    connect_pins(Connecting, pin1, pin2))

ConnectI2c ==
    /\ editor = Interactive
    /\ calls < MaxCalls
    /\ calls' = calls + 1
    /\ \E master \in {<<"J1">>}, slave \in {<<"GPIOExtender1">>, <<"D1", ".", "A">>} :
          Connected("connect_i2c", NoArgs, connect_i2c(Connecting, master, slave))

WireStepperDriver ==
    /\ editor = Interactive
    /\ calls < MaxCalls
    /\ calls' = calls + 1
    /\ \E driver_ref \in {<<"U1">>}, step_pin \in {<<"J1", ".", "GPIO17">>},
          dir_pin \in {<<"J1", ".", "GPIO27">>}, enable_pin \in {<<"J1", ".", "GPIO22">>} :
          Connected("wire_stepper_driver", NoArgs,
                    wire_stepper_driver(Connecting, driver_ref, step_pin, dir_pin, enable_pin))

-----------------------------------------------------------------------------

Next ==
    \/ AddSymbol
    \/ KuAddWire
    \/ AddJunction
    \/ KuAddLabel
    \/ GetSymbolPosition
    \/ MoveSymbol
    \/ ConnectPoints
    \/ CreateBus
    \/ KuSave
    \/ CreateResistorDivider
    \/ CreateBypassCap
    \/ CreateConnector
    \/ Backup
    \/ SeSave
    \/ Reload
    \/ SeAddWire
    \/ SeAddLabel
    \/ ConnectGrounds
    \/ ConnectPower
    \/ ListComponents
    \/ ListUnconnected
    \/ ConnectPins
    \/ ConnectI2c
    \/ WireStepperDriver

Spec == Init /\ [][Next]_vars

-----------------------------------------------------------------------------
(* Vocabulary of the properties *)

Collections == {"schematicSymbols", "wires", "junctions", "labels", "globalLabels"}

(* the points of a wire, whichever method drew it *)
WirePoints(w) ==
    IF "points" \in DOMAIN w THEN w.points ELSE <<w.startPoint, w.endPoint>>

ReferenceOf(symbol) ==
    LET k == CHOOSE k \in 1..Len(symbol.properties) : symbol.properties[k].key = "Reference"
    IN  symbol.properties[k].value

Uuids(doc) ==
    UNION {{doc[f][i].uuid : i \in 1..Len(doc[f])} : f \in Collections}

(* the declared pins of the document's components, as 'REF.PIN' strings:   *)
(* for each symbol, the pins its library symbol has in lib_symbols         *)
DeclaredPins(doc) ==
    UNION {{<<ReferenceOf(doc.schematicSymbols[i]), ".", pin>> :
               pin \in IF doc.schematicSymbols[i].libraryIdentifier \in DOMAIN doc.libSymbols
                       THEN doc.libSymbols[doc.schematicSymbols[i].libraryIdentifier]
                       ELSE {}} :
           i \in 1..Len(doc.schematicSymbols)}

InSomeNet(pin) == \E n \in DOMAIN nets : pin \in nets[n]
SameNet(a, b) == \E n \in DOMAIN nets : a \in nets[n] /\ b \in nets[n]

WellFormed(pin) == Len(split(pin)) = 2
RefOfPin(pin) == split(pin)[1]

MainFile == str(path)
FixedBackupFile == path.stem \o ".bak" \o path.suffix
NumberedBackupFile(n) == path.stem \o ".bak" \o ToString(n) \o path.suffix

-----------------------------------------------------------------------------
(* C1: whatever connect calls (connect_pins, connect_i2c,                  *)
(* wire_stepper_driver) the session has made, no pin is a member of two    *)
(* nets of the editor's net map.                                           *)
C1_PinInAtMostOneNet ==
    \A n1 \in DOMAIN nets : \A n2 \in DOMAIN nets :
        n1 # n2 => nets[n1] \cap nets[n2] = {}

(* connect_pins has accepted two connections that share a pin *)
C1_Witness ==
    \E a \in PinSpecs, b \in PinSpecs, c \in PinSpecs :
        /\ a # b /\ b # c /\ a # c
        /\ {a, b} \in connected
        /\ {b, c} \in connected
        /\ ret.op = "connect_pins" /\ ret.raised = NoError

(* C2: union property.  Once A-B and B-C have been connected, for three    *)
(* declared pins A, B, C of the document's components, A and C are members *)
(* of one and the same net.                                                *)
C2_Union ==
    \A a \in DeclaredPins(sch), b \in DeclaredPins(sch), c \in DeclaredPins(sch) :
        (/\ a # b /\ b # c /\ a # c
         /\ {a, b} \in connected
         /\ {b, c} \in connected) => SameNet(a, c)

(* C3: the pins list_unconnected lists after its header are exactly the    *)
(* declared pins of the document's components that are in no net.          *)
C3_ListUnconnectedExact ==
    ret.op = "list_unconnected" =>
        SeqToSet(Tail(ret.printed)) = {pin \in DeclaredPins(sch) : ~InSomeNet(pin)}

(* C4: no two symbols of the in-memory document carry the same Reference   *)
(* value.                                                                  *)
C4_UniqueReferences ==
    \A i \in 1..Len(sch.schematicSymbols) : \A j \in 1..Len(sch.schematicSymbols) :
        i # j => ReferenceOf(sch.schematicSymbols[i]) # ReferenceOf(sch.schematicSymbols[j])

(* C5: every wire of the document has at least 2 points, whichever         *)
(* operation added it, and a kicad_utils add_wire call with fewer than 2   *)
(* points raises ValueError and leaves the document and the files as they  *)
(* were.                                                                   *)
ShortAddWire(r) ==
    /\ editor = KicadUtils
    /\ r.op = "add_wire"
    /\ Len(r.args.points) < 2

(* C5: wires have at least 2 points; a shorter add_wire request raises and *)
(* changes nothing                                                        *)
C5_WiresHaveTwoPoints ==
    /\ [](\A i \in 1..Len(sch.wires) : Len(WirePoints(sch.wires[i])) >= 2)
    /\ [][ShortAddWire(ret') => (ret'.raised = "ValueError" /\ UNCHANGED <<sch, fs>>)]_vars

(* an add_wire call with a single point was refused on a document that     *)
(* holds a wire                                                            *)
C5_Witness ==
    /\ ShortAddWire(ret)
    /\ Len(ret.args.points) = 1
    /\ ret.raised = "ValueError"
    /\ sch.wires # << >>

(* C6: the calls that address a component by a reference designator the    *)
(* document does not hold.                                                 *)
AbsentReferenceCall(r, doc, map) ==
    \/ /\ editor = KicadUtils
       /\ r.op \in {"move_symbol", "get_symbol_position"}
       /\ find_symbol(doc, r.args.reference) = None
    \/ /\ editor = Interactive
       /\ r.op = "connect_pins"
       /\ WellFormed(r.args.pin1) /\ WellFormed(r.args.pin2)
       /\ \/ ~(Len(RefOfPin(r.args.pin1)) = 1 /\ RefOfPin(r.args.pin1)[1] \in DOMAIN map)
          \/ ~(Len(RefOfPin(r.args.pin2)) = 1 /\ RefOfPin(r.args.pin2)[1] \in DOMAIN map)

SaveWithBackup(r) ==
    /\ editor = KicadUtils
    /\ r.op = "save"
    /\ r.args.backup

(* C7: the backup of save(backup=True) is the file's previous content *)
C7_BackupIsPreWriteCopy ==
    [][SaveWithBackup(ret') =>
          /\ fs'[FixedBackupFile] = fs[MainFile]
          /\ fs'[MainFile] = sch]_vars

(* C8 as claimed: every backup of the session, made by backup() or by      *)
(* save(backup=True), creates a new file named .bak<N>.                    *)
BackupCall(r) == (editor = Interactive /\ r.op = "backup") \/ SaveWithBackup(r)

(* C8 as claimed: each backup goes to a new .bak<N> file *)
C8_EveryBackupNumbered ==
    [][BackupCall(ret') =>
          \E n \in 1..MaxCalls :
              /\ NumberedBackupFile(n) \notin DOMAIN fs
              /\ DOMAIN fs' = DOMAIN fs \cup {NumberedBackupFile(n)}]_vars

(* C8 as amended: the N-th backup() of a session writes the in-memory      *)
(* document to the new file <stem>.bak<N>.kicad_sch, N = 1, 2, 3, ...,     *)
(* and changes no other file; reload does not change the counter;          *)
(* save(backup=True) of kicad_utils writes its backup to the one file      *)
(* <stem>.bak.kicad_sch instead.                                           *)
C8_BackupNaming ==
    /\ [](editor = Interactive =>
            DOMAIN fs = {MainFile} \cup {NumberedBackupFile(n) : n \in 1..backup_counter})
    /\ [][(editor = Interactive /\ ret'.op = "backup") =>
            /\ backup_counter' = backup_counter + 1
            /\ NumberedBackupFile(backup_counter') \notin DOMAIN fs
            /\ fs' = to_file(fs, NumberedBackupFile(backup_counter'), sch)]_vars
    /\ [][(editor = Interactive /\ ret'.op # "backup") =>
            backup_counter' = backup_counter]_vars
    /\ [][SaveWithBackup(ret') =>
            /\ DOMAIN fs' = {MainFile, FixedBackupFile}
            /\ fs'[FixedBackupFile] = sch]_vars

(* two backups of one session hold different documents *)
C8_Witness ==
    /\ editor = Interactive
    /\ ret.op = "backup"
    /\ backup_counter = 2
    /\ fs[NumberedBackupFile(1)] # fs[NumberedBackupFile(2)]

(* C9 as claimed: no call removes an entity from the in-memory document *)
C9_NothingRemoved ==
    [][Uuids(sch) \subseteq Uuids(sch')]_vars

(* C9 as amended: no call other than reload removes an entity from the     *)
(* in-memory document, so the file a save writes holds every entity added  *)
(* since the last reload; reload replaces the document by the file's       *)
(* content, dropping what was added and not saved.                         *)
C9_PersistsUnlessReloaded ==
    /\ [][ret'.op # "reload" => Uuids(sch) \subseteq Uuids(sch')]_vars
    /\ [][ret'.op = "save" => (fs'[MainFile] = sch /\ sch' = sch)]_vars
    /\ [][ret'.op = "reload" => sch' = fs[MainFile]]_vars

(* a wire and a label added by earlier calls are in the file a save wrote *)
C9_Witness ==
    /\ editor = Interactive
    /\ ret.op = "save"
    /\ fs[MainFile].wires # << >>
    /\ fs[MainFile].labels # << >>

(* C10: frame of the kicad_utils add methods *)
Appended(f, k) ==
    /\ Len(sch'[f]) = Len(sch[f]) + k
    /\ SubSeq(sch'[f], 1, Len(sch[f])) = sch[f]
    /\ \A i \in (Len(sch[f]) + 1)..Len(sch'[f]) : sch'[f][i].uuid \notin Uuids(sch)

OnlyAppended(f) ==
    /\ Appended(f, 1)
    /\ \A g \in Collections \ {f} : sch'[g] = sch[g]

MidpointLabel(r) ==
    LET label == sch'.labels[Len(sch'.labels)]
    IN  /\ label.text = r.args.label[1]
        /\ 2 * label.position.X = r.args.start[1] + r.args.end[1]
        /\ 2 * label.position.Y = r.args.start[2] + r.args.end[2]

(* C10: a successful add_symbol, add_wire, add_junction or add_label of    *)
(* kicad_utils appends one new entity to its own collection (add_label to  *)
(* globalLabels when global_label, to labels otherwise) and changes no     *)
(* other collection and no earlier entity; connect_points appends one wire *)
(* and, only when its label is a non-empty string, one label at the        *)
(* midpoint of start and end.                                              *)
C10_AddFrame ==
    [][(editor = KicadUtils /\ ret'.raised = NoError) =>
          /\ ret'.op = "add_symbol" => OnlyAppended("schematicSymbols")
          /\ ret'.op = "add_wire" => OnlyAppended("wires")
          /\ ret'.op = "add_junction" => OnlyAppended("junctions")
          /\ ret'.op = "add_label" =>
                IF ret'.args.global_label
                THEN OnlyAppended("globalLabels")
                ELSE OnlyAppended("labels")
          /\ ret'.op = "connect_points" =>
                /\ Appended("wires", 1)
                /\ \A g \in Collections \ {"wires", "labels"} : sch'[g] = sch[g]
                /\ IF ret'.args.label \in {<< >>, <<"">>}
                   THEN sch'.labels = sch.labels
                   ELSE Appended("labels", 1) /\ MidpointLabel(ret')]_vars

(* connect_points with a label joined two different points of a document   *)
(* that already held a label                                               *)
C10_Witness ==
    /\ editor = KicadUtils
    /\ ret.op = "connect_points"
    /\ ret.args.label \notin {<< >>, <<"">>}
    /\ ret.args.start # ret.args.end
    /\ Len(sch.labels) >= 2

=============================================================================
